---- MODULE Spec2Model ----
(***************************************************************************)
(* Model of src/apiClient/apiBase/Model.js: the Model base class of the    *)
(* API client (construction pipeline, set / stub, toJSON).                 *)
(*                                                                         *)
(* JavaScript values are records [t, n, s, a]: t is the type tag, n the    *)
(* number (or the truth value, or the identity of a promise), s the string *)
(* as a sequence of characters, a the elements of an array.  A plain       *)
(* object is a sequence of [k, v] pairs in property (insertion) order, the *)
(* order Object.keys and for..in enumerate.                                *)
(***************************************************************************)
EXTENDS Integers, Sequences, FiniteSets, TLC

VARIABLES schema, data, heap, made, promises, warnings, ret

vars == <<schema, data, heap, made, promises, warnings, ret>>

----------------------------------------------------------------------------
(* JavaScript values *)

Undefined == [t |-> "undefined", n |-> 0, s |-> <<>>, a |-> <<>>]
Null == [t |-> "null", n |-> 0, s |-> <<>>, a |-> <<>>]
NaN == [t |-> "NaN", n |-> 0, s |-> <<>>, a |-> <<>>]
Bool(b) == [t |-> "boolean", n |-> IF b THEN 1 ELSE 0, s |-> <<>>, a |-> <<>>]
Num(i) == [t |-> "number", n |-> i, s |-> <<>>, a |-> <<>>]
Str(cs) == [t |-> "string", n |-> 0, s |-> cs, a |-> <<>>]
Arr(es) == [t |-> "array", n |-> 0, s |-> <<>>, a |-> es]
PromiseV(h) == [t |-> "promise", n |-> h, s |-> <<>>, a |-> <<>>]

\* ToBoolean, as `val ? .. : ..`, `if (x)`, `!x`, `a || b` and Boolean(val) apply it.
Truthy(v) ==
  CASE v.t = "undefined" -> FALSE
    [] v.t = "null" -> FALSE
    [] v.t = "NaN" -> FALSE
    [] v.t = "boolean" -> v.n = 1
    [] v.t = "number" -> v.n # 0
    [] v.t = "string" -> v.s # <<>>
    [] OTHER -> TRUE

DigitChars == <<"0", "1", "2", "3", "4", "5", "6", "7", "8", "9">>

RECURSIVE Digits(_)
Digits(i) ==
  IF i < 10 THEN <<DigitChars[i + 1]>>
  ELSE Digits(i \div 10) \o <<DigitChars[(i % 10) + 1]>>

\* Number::toString of an integer.
IntToStr(i) == IF i < 0 THEN <<"-">> \o Digits(0 - i) ELSE Digits(i)

\* String(val) of a value that is not an array.
PrimToStr(v) ==
  CASE v.t = "undefined" -> <<"u", "n", "d", "e", "f", "i", "n", "e", "d">>
    [] v.t = "null" -> <<"n", "u", "l", "l">>
    [] v.t = "NaN" -> <<"N", "a", "N">>
    [] v.t = "boolean" -> IF v.n = 1 THEN <<"t", "r", "u", "e">>
                          ELSE <<"f", "a", "l", "s", "e">>
    [] v.t = "number" -> IntToStr(v.n)
    [] v.t = "string" -> v.s
    [] OTHER -> <<"[", "o", "b", "j", "e", "c", "t", " ", "P", "r", "o", "m", "i", "s", "e", "]">>

\* Array.prototype.join(","): null and undefined elements join as "".
RECURSIVE Join(_)
Join(es) ==
  IF es = <<>> THEN <<>>
  ELSE LET e == es[1]
           h == IF e.t \in {"undefined", "null"} THEN <<>> ELSE PrimToStr(e)
       IN IF Len(es) = 1 THEN h ELSE h \o <<",">> \o Join(Tail(es))

\* String(val).
ToStr(v) == IF v.t = "array" THEN Join(v.a) ELSE PrimToStr(v)

DigitOf(c) == CHOOSE d \in 0..9 : DigitChars[d + 1] = c

IsDigits(cs) == cs # <<>> /\ \A i \in 1..Len(cs) : \E d \in 0..9 : DigitChars[d + 1] = cs[i]

RECURSIVE DigitsVal(_)
DigitsVal(cs) ==
  IF cs = <<>> THEN 0
  ELSE 10 * DigitsVal(SubSeq(cs, 1, Len(cs) - 1)) + DigitOf(cs[Len(cs)])

\* StringToNumber on decimal integer literals: "" is 0, an optional sign and
\* digits the integer, anything else NaN.
StrToNum(cs) ==
  IF cs = <<>> THEN Num(0)
  ELSE IF IsDigits(cs) THEN Num(DigitsVal(cs))
  ELSE IF cs[1] = "-" /\ IsDigits(Tail(cs)) THEN Num(0 - DigitsVal(Tail(cs)))
  ELSE IF cs[1] = "+" /\ IsDigits(Tail(cs)) THEN Num(DigitsVal(Tail(cs)))
  ELSE NaN

\* Number(val).
ToNum(v) ==
  CASE v.t = "undefined" -> NaN
    [] v.t = "null" -> Num(0)
    [] v.t = "NaN" -> NaN
    [] v.t = "boolean" -> Num(v.n)
    [] v.t = "number" -> v
    [] v.t = "string" -> StrToNum(v.s)
    [] v.t = "array" -> StrToNum(Join(v.a))
    [] OTHER -> NaN

\* The binary + of a derivation such as `raw => raw.a + raw.b`: objects go to
\* their string, a string operand concatenates, anything else adds as numbers.
Plus(x, y) ==
  LET px == IF x.t \in {"array", "promise"} THEN Str(ToStr(x)) ELSE x
      py == IF y.t \in {"array", "promise"} THEN Str(ToStr(y)) ELSE y
      nx == ToNum(px)
      ny == ToNum(py)
  IN IF px.t = "string" \/ py.t = "string" THEN Str(ToStr(px) \o ToStr(py))
     ELSE IF nx.t = "NaN" \/ ny.t = "NaN" THEN NaN
     ELSE Num(nx.n + ny.n)

----------------------------------------------------------------------------
(* Plain objects: sequences of [k, v] in property order *)

Keys(o) == [i \in 1..Len(o) |-> o[i].k]

Has(o, key) == \E i \in 1..Len(o) : o[i].k = key

Lookup(o, key) == o[CHOOSE i \in 1..Len(o) : o[i].k = key].v

\* o[key]: undefined when the property is absent.
Get(o, key) == IF Has(o, key) THEN Lookup(o, key) ELSE Undefined

\* o[key] = v: an existing property keeps its place, a new one goes last.
Put(o, key, v) ==
  IF Has(o, key)
  THEN [i \in 1..Len(o) |-> IF o[i].k = key THEN [k |-> key, v |-> v] ELSE o[i]]
  ELSE Append(o, [k |-> key, v |-> v])

\* {...x, ...y}
RECURSIVE Spread(_, _)
Spread(x, y) == IF y = <<>> THEN x ELSE Spread(Put(x, y[1].k, y[1].v), Tail(y))

----------------------------------------------------------------------------
(* Model.Types: a transformer is [fn, of]; `of` is the element transformer
   of arrayOf and "" otherwise *)

T(fn) == [fn |-> fn, of |-> ""]
\* arrayOf's default element transformer is Model.Types.nop
ArrayOf(of) == [fn |-> "arrayOf", of |-> of]

string(val) == IF Truthy(val) THEN Str(ToStr(val)) ELSE Str(<<>>)

number(val) == IF val = Undefined THEN Num(0) ELSE ToNum(val)

array(val) == IF val.t = "array" THEN val ELSE Arr(<<>>)

bool(val) == Bool(Truthy(val))

likes(val) ==
  CASE val = Bool(TRUE) -> Num(1)
    [] val = Bool(FALSE) -> Num(0 - 1)
    [] val = Null -> Num(0)
    [] OTHER -> val

nop(val) == val

\* The transformers other than arrayOf, by name.
CallType(fn, val) ==
  CASE fn = "string" -> string(val)
    [] fn = "number" -> number(val)
    [] fn = "array" -> array(val)
    [] fn = "bool" -> bool(val)
    [] fn = "likes" -> likes(val)
    [] OTHER -> nop(val)

arrayOf(type, val) ==
  LET es == array(val).a IN Arr([i \in 1..Len(es) |-> CallType(type, es[i])])

\* typeFn(val); typeFn() is typeFn(undefined).
Call(typeFn, val) ==
  IF typeFn.fn = "arrayOf" THEN arrayOf(typeFn.of, val) ELSE CallType(typeFn.fn, val)

----------------------------------------------------------------------------
(* The class under construction: schema = [API_ALIASES, PROPERTIES,
   DERIVED_PROPERTIES, type].  A derivation is [op, k1, k2]:
   "get" is raw => raw[k1], "add" is raw => raw[k1] + raw[k2]. *)

API_ALIASES == schema.API_ALIASES
PROPERTIES == schema.PROPERTIES
DERIVED_PROPERTIES == schema.DERIVED_PROPERTIES

Derive(fn, raw) ==
  IF fn.op = "add" THEN Plus(Get(raw, fn.k1), Get(raw, fn.k2)) ELSE Get(raw, fn.k1)

\* The loop over Object.keys(data) without the alias lookup.
RECURSIVE AssignData_NoAlias(_, _, _)
AssignData_NoAlias(this, d, i) ==
  IF i > Len(d) THEN this
  ELSE LET key == d[i].k
       IN IF Has(DERIVED_PROPERTIES, key) THEN AssignData_NoAlias(this, d, i + 1)
          ELSE IF Has(PROPERTIES, key)
          THEN AssignData_NoAlias(Put(this, key, Call(Lookup(PROPERTIES, key), d[i].v)), d, i + 1)
          ELSE AssignData_NoAlias(this, d, i + 1)

\* Lines 94-108: the loop over Object.keys(data).
RECURSIVE AssignData(_, _, _)
AssignData(this, d, i) ==
  IF i > Len(d) THEN this
  ELSE LET key == d[i].k
           keyName == IF Has(API_ALIASES, key) THEN Lookup(API_ALIASES, key) ELSE key
       IN IF Has(DERIVED_PROPERTIES, key) THEN AssignData(this, d, i + 1)
          ELSE IF Has(PROPERTIES, keyName)
          THEN AssignData(Put(this, keyName, Call(Lookup(PROPERTIES, keyName), d[i].v)), d, i + 1)
          ELSE AssignData(this, d, i + 1)

\* No loop over PROPERTIES: absent fields stay absent.
FillDefaults_None(this, i) == this

\* Lines 110-114: the loop over PROPERTIES.
RECURSIVE FillDefaults(_, _)
FillDefaults(this, i) ==
  IF i > Len(PROPERTIES) THEN this
  ELSE LET propName == PROPERTIES[i].k
       IN IF Get(this, propName) = Undefined
          THEN FillDefaults(Put(this, propName, Call(PROPERTIES[i].v, Undefined)), i + 1)
          ELSE FillDefaults(this, i + 1)

\* The loop over the derived keys, assigning only the fields the payload
\* left at their defaults.
RECURSIVE AssignDerived_KeepRaw(_, _, _)
AssignDerived_KeepRaw(this, d, i) ==
  IF i > Len(DERIVED_PROPERTIES) THEN this
  ELSE LET derivedKey == DERIVED_PROPERTIES[i].k
       IN IF Has(PROPERTIES, derivedKey)
             /\ Get(this, derivedKey) = Call(Lookup(PROPERTIES, derivedKey), Undefined)
          THEN AssignDerived_KeepRaw(
                 Put(this, derivedKey,
                     Call(Lookup(PROPERTIES, derivedKey), Derive(DERIVED_PROPERTIES[i].v, d))),
                 d, i + 1)
          ELSE AssignDerived_KeepRaw(this, d, i + 1)

\* Lines 116-125: the loop over Object.keys(DERIVED_PROPERTIES).
RECURSIVE AssignDerived(_, _, _)
AssignDerived(this, d, i) ==
  IF i > Len(DERIVED_PROPERTIES) THEN this
  ELSE LET derivedKey == DERIVED_PROPERTIES[i].k
       IN IF Has(PROPERTIES, derivedKey)
          THEN AssignDerived(
                 Put(this, derivedKey,
                     Call(Lookup(PROPERTIES, derivedKey), Derive(DERIVED_PROPERTIES[i].v, d))),
                 d, i + 1)
          ELSE AssignDerived(this, d, i + 1)

\* fakeUUID: (Math.random() * 16).toFixed() is one of "0" .. "16"; `r` is the draw.
fakeUUID(r) == Str(IntToStr(r))

\* makeUUID testing for the keys instead of the truth of their values.
makeUUID_AnyUuid(d, r) ==
  IF Has(d, "uuid") THEN [v |-> Get(d, "uuid"), warns |-> 0]
  ELSE IF Has(d, "id") THEN [v |-> Get(d, "id"), warns |-> 0]
  ELSE [v |-> fakeUUID(r), warns |-> 1]

\* makeUUID: the value returned and the number of console.warn calls made.
makeUUID(d, r) ==
  IF Truthy(Get(d, "uuid")) THEN [v |-> Get(d, "uuid"), warns |-> 0]
  ELSE IF Truthy(Get(d, "id")) THEN [v |-> Get(d, "id"), warns |-> 0]
  ELSE [v |-> fakeUUID(r), warns |-> 1]

makePaginationId(this, d, r) ==
  IF Truthy(Get(this, "uuid")) THEN [v |-> Get(this, "uuid"), warns |-> 0]
  ELSE makeUUID(d, r)

getType == schema.type

\* Object.freeze left out.
Freeze_Not(inst) == inst

\* Object.freeze
Freeze(inst) == [inst EXCEPT !.frozen = TRUE]

\* new this.constructor(d, flag): r1, r2 are the draws of Math.random the two
\* possible fakeUUID calls would see.
New(d, flag, r1, r2) ==
  LET fields == AssignDerived(FillDefaults(AssignData(<<>>, d, 1), 1), d, 1)
      uuid == makeUUID(d, r1)
      withUuid == Put(fields, "uuid", uuid.v)
      pid == makePaginationId(withUuid, d, r2)
      withPid == Put(withUuid, "paginationId", pid.v)
      this == [obj |-> Put(withPid, "type", getType), frozen |-> FALSE,
               warns |-> uuid.warns + pid.warns]
  IN IF flag THEN this ELSE Freeze(this)

\* _diff: the first argument is [isObject, key, obj], a property name or an object.
Diff(keyOrObject, value) ==
  IF keyOrObject.isObject THEN keyOrObject.obj
  ELSE <<[k |-> keyOrObject.key, v |-> value]>>

\* Every own property, declared or not.
OwnProperties_All(this, i) == this

RECURSIVE OwnProperties(_, _)
OwnProperties(this, i) ==
  IF i > Len(this) THEN <<>>
  ELSE IF Has(PROPERTIES, this[i].k)
       THEN <<this[i]>> \o OwnProperties(this, i + 1)
       ELSE OwnProperties(this, i + 1)

\* toJSON without `obj.uuid = this.uuid`.
toJSON_NoUuid(this) == Put(OwnProperties(this, 1), "type", Get(this, "type"))

toJSON(this) ==
  Put(Put(OwnProperties(this, 1), "uuid", Get(this, "uuid")), "type", Get(this, "type"))

\* set with the spread the other way round: the instance's values win.
set_PatchLoses(this, keyOrObject, value, r1, r2) ==
  New(Spread(Diff(keyOrObject, value), toJSON(this)), FALSE, r1, r2)

set(this, keyOrObject, value, r1, r2) ==
  New(Spread(toJSON(this), Diff(keyOrObject, value)), FALSE, r1, r2)

\* stub constructing from the patch alone.
stub_PatchOnly(this, keyOrObject, valueOrPromise, promiseArg, r1, r2) ==
  LET promise == IF ~Truthy(promiseArg) THEN valueOrPromise ELSE promiseArg
      s == New(Diff(keyOrObject, valueOrPromise), TRUE, r1, r2)
  IN Freeze([s EXCEPT !.obj = Put(s.obj, "promise", promise)])

\* stub without the Object.freeze after the promise is attached.
stub_NoFreeze(this, keyOrObject, valueOrPromise, promiseArg, r1, r2) ==
  LET promise == IF ~Truthy(promiseArg) THEN valueOrPromise ELSE promiseArg
      next == Spread(toJSON(this), Diff(keyOrObject, valueOrPromise))
      s == New(next, TRUE, r1, r2)
  IN [s EXCEPT !.obj = Put(s.obj, "promise", promise)]

stub(this, keyOrObject, valueOrPromise, promiseArg, r1, r2) ==
  LET promise == IF ~Truthy(promiseArg) THEN valueOrPromise ELSE promiseArg
      next == Spread(toJSON(this), Diff(keyOrObject, valueOrPromise))
      s == New(next, TRUE, r1, r2)
  IN Freeze([s EXCEPT !.obj = Put(s.obj, "promise", promise)])

----------------------------------------------------------------------------
(* Inputs: the classes and raw payloads the pipeline is run on *)

MaxRawKeys == 2
MaxInst == 3

P(key, v) == [k |-> key, v |-> v]

Link == Str(<<"t", "3">>)

Schemas ==
  { \* PROPERTIES only
    [API_ALIASES |-> <<>>,
     PROPERTIES |-> <<P("a", T("string")), P("b", T("number"))>>,
     DERIVED_PROPERTIES |-> <<>>, type |-> Link],
    \* an alias from a raw-only name, tri-state and pass-through fields
    [API_ALIASES |-> <<P("x", "a")>>,
     PROPERTIES |-> <<P("a", T("likes")), P("b", T("nop"))>>,
     DERIVED_PROPERTIES |-> <<>>, type |-> Link],
    \* an alias from a name that is itself a field
    [API_ALIASES |-> <<P("a", "b")>>,
     PROPERTIES |-> <<P("a", T("string")), P("b", T("string"))>>,
     DERIVED_PROPERTIES |-> <<>>, type |-> Link],
    \* a field derived from a field and from a raw-only name
    [API_ALIASES |-> <<>>,
     PROPERTIES |-> <<P("a", T("number")), P("b", T("number"))>>,
     DERIVED_PROPERTIES |-> <<P("b", [op |-> "add", k1 |-> "a", k2 |-> "x"])>>, type |-> Link],
    \* a field derived from fields only
    [API_ALIASES |-> <<>>,
     PROPERTIES |-> <<P("a", T("number")), P("x", T("number")), P("b", T("number"))>>,
     DERIVED_PROPERTIES |-> <<P("b", [op |-> "add", k1 |-> "a", k2 |-> "x"])>>, type |-> Link],
    \* a derived name without a transformer
    [API_ALIASES |-> <<P("x", "b")>>,
     PROPERTIES |-> <<P("b", T("bool"))>>,
     DERIVED_PROPERTIES |-> <<P("a", [op |-> "get", k1 |-> "b", k2 |-> ""])>>, type |-> Link],
    \* an alias onto a derived field
    [API_ALIASES |-> <<P("x", "b")>>,
     PROPERTIES |-> <<P("a", T("bool")), P("b", T("string"))>>,
     DERIVED_PROPERTIES |-> <<P("b", [op |-> "get", k1 |-> "a", k2 |-> ""])>>, type |-> Link],
    \* array fields and the id as a field
    [API_ALIASES |-> <<>>,
     PROPERTIES |-> <<P("id", T("string")), P("a", T("array")), P("b", ArrayOf("number"))>>,
     DERIVED_PROPERTIES |-> <<>>, type |-> Link] }

\* The classes the set / stub scenarios run on: those with an alias from a
\* raw-only name, with a derived field, or with array fields.
LifeSchemas ==
  {c \in Schemas : \/ Has(c.API_ALIASES, "x") /\ c.DERIVED_PROPERTIES = <<>>
                   \/ Has(c.PROPERTIES, "id")
                   \/ \E i \in 1..Len(c.DERIVED_PROPERTIES) : c.DERIVED_PROPERTIES[i].v.op = "add"}

FieldKeys == {"a", "b", "x"}
FieldValues ==
  { Undefined, Null, Bool(TRUE), Bool(FALSE), Num(2), Str(<<>>), Str(<<"7">>),
    Arr(<<Num(1), Str(<<"z">>)>>) }

IdKeys == {"uuid", "id"}
IdValues == { Str(<<>>), Str(<<"u", "1">>), Num(0), Num(5) }

RawPairs == {P(key, v) : key \in FieldKeys, v \in FieldValues}
              \cup {P(key, v) : key \in IdKeys, v \in IdValues}

\* The objects of n properties, in every property order.
RECURSIVE RawsOfLen(_)
RawsOfLen(n) ==
  IF n = 0 THEN {<<>>}
  ELSE {Append(x[1], x[2]) :
          x \in {y \in RawsOfLen(n - 1) \X RawPairs : ~Has(y[1], y[2].k)}}

RawInputs == UNION {RawsOfLen(n) : n \in 0..MaxRawKeys}

U1 == Str(<<"u", "1">>)

\* The payload the set / stub scenarios start from.
LifeInputs ==
  { <<P("id", U1), P("a", Num(2)), P("x", Str(<<"7">>))>> }

Key(key) == [isObject |-> FALSE, key |-> key, obj |-> <<>>]
Obj(o) == [isObject |-> TRUE, key |-> "", obj |-> o]

\* The (keyOrObject, value) arguments of set and stub.
Patches ==
  { <<Key("a"), Num(5)>>,
    <<Obj(<<P("b", Bool(FALSE)), P("x", Num(2))>>), Undefined>>,
    <<Obj(<<P("uuid", Str(<<>>)), P("a", Arr(<<Num(1)>>))>>), Undefined>> }

\* Math.random() * 16, rounded by toFixed(): the two ends of 0 .. 16.
Randoms == {0, 16}

\* The draws of Math.random a construction from d can read: none is read
\* unless makeUUID reaches fakeUUID.
Draws(d) ==
  IF Truthy(Get(d, "uuid")) \/ Truthy(Get(d, "id")) THEN {<<0, 0>>} ELSE Randoms \X Randoms

----------------------------------------------------------------------------
(* State *)

NoRet == [tag |-> "none", i |-> 0, obj |-> <<>>]

\* What is remembered of the call that made heap[i]: the operation, the
\* instance it was called on, the patch, and the console.warn calls it made.
Made(op, from, patch, inst) ==
  [op |-> op, from |-> from, patch |-> patch, warns |-> inst.warns]

Inst(inst) == [obj |-> inst.obj, frozen |-> inst.frozen]

Start(schemas, inputs) ==
  /\ schema \in schemas
  /\ data \in inputs
  /\ heap = <<>>
  /\ made = <<>>
  /\ promises = <<>>
  /\ warnings = 0
  /\ ret = NoRet

Init == Start(LifeSchemas, LifeInputs)

InitPipeline == Start(Schemas, RawInputs)

\* What set and stub hand to the constructor.
Merged(this, p) == Spread(toJSON(this), Diff(p[1], p[2]))

\* The caller keeps the instance a call returned; promises[i] is the state of
\* the promise made for the call that returned heap[i], "none" without one.
Return(op, from, patch, inst, promise) ==
  /\ heap' = Append(heap, Inst(inst))
  /\ made' = Append(made, Made(op, from, patch, inst))
  /\ promises' = Append(promises, promise)
  /\ warnings' = warnings + inst.warns
  /\ ret' = [tag |-> "instance", i |-> Len(heap) + 1, obj |-> <<>>]

\* Model.fromJSON(data)
FromJSON ==
  /\ heap = <<>>
  /\ \E r \in Draws(data) :
       Return("fromJSON", 0, <<>>, New(data, FALSE, r[1], r[2]), "none")
  /\ UNCHANGED <<schema, data>>

\* heap[i].set(keyOrObject, value)
Set ==
  /\ Len(heap) < MaxInst
  /\ \E i \in 1..Len(heap), p \in Patches :
       \E r \in Draws(Merged(heap[i].obj, p)) :
         Return("set", i, Diff(p[1], p[2]),
                set(heap[i].obj, p[1], p[2], r[1], r[2]), "none")
  /\ UNCHANGED <<schema, data>>

\* heap[i].stub(key, value, promise) and heap[i].stub(object, promise), with
\* the promise the caller made for this call.
Stub ==
  /\ Len(heap) < MaxInst
  /\ \E i \in 1..Len(heap), p \in Patches :
       \E r \in Draws(Merged(heap[i].obj, p)) :
         LET promise == PromiseV(Len(heap) + 1)
         IN IF p[1].isObject
            THEN Return("stub", i, Diff(p[1], p[2]),
                        stub(heap[i].obj, p[1], promise, Undefined, r[1], r[2]), "pending")
            ELSE Return("stub", i, Diff(p[1], p[2]),
                        stub(heap[i].obj, p[1], p[2], promise, r[1], r[2]), "pending")
  /\ UNCHANGED <<schema, data>>

\* heap[i].toJSON()
ToJSON ==
  /\ \E i \in 1..Len(heap) : ret' = [tag |-> "json", i |-> i, obj |-> toJSON(heap[i].obj)]
  /\ UNCHANGED <<schema, data, heap, made, promises, warnings>>

\* Model.fromJSON(heap[i].toJSON())
Reparse ==
  /\ Len(heap) < MaxInst
  /\ \E i \in 1..Len(heap) :
       \E r \in Draws(toJSON(heap[i].obj)) :
         Return("reparse", i, <<>>,
                New(toJSON(heap[i].obj), FALSE, r[1], r[2]), "none")
  /\ UNCHANGED <<schema, data>>

\* heap[i][key] = v by a holder of the instance: module code is strict, the
\* assignment to a property of a frozen object throws.
Write ==
  /\ \E i \in 1..Len(heap), w \in {P("a", Num(5))} :
       IF heap[i].frozen
       THEN /\ heap' = heap
            /\ ret' = [tag |-> "TypeError", i |-> 0, obj |-> <<>>]
       ELSE /\ heap' = [heap EXCEPT ![i].obj = Put(heap[i].obj, w.k, w.v)]
            /\ ret' = [tag |-> "assigned", i |-> 0, obj |-> <<>>]
  /\ UNCHANGED <<schema, data, made, promises, warnings>>

\* The producer of the promise a stub carries settles it, once.
Settle ==
  /\ \E i \in 1..Len(heap), outcome \in {"resolved", "rejected"} :
       /\ promises[i] = "pending"
       /\ promises' = [promises EXCEPT ![i] = outcome]
  /\ UNCHANGED <<schema, data, heap, made, warnings, ret>>

Next == FromJSON \/ Set \/ Stub \/ ToJSON \/ Write \/ Settle

Spec == Init /\ [][Next]_vars

\* The construction pipeline alone: one payload, constructed and taken round.
RoundTrip == Len(heap) = 1 /\ Reparse

Serialize == Len(heap) <= 2 /\ ToJSON

NextPipeline == FromJSON \/ RoundTrip \/ Serialize

SpecPipeline == InitPipeline /\ [][NextPipeline]_vars

----------------------------------------------------------------------------
(* The construction pipeline *)

\* The instances made so far, by their place in the heap.
Instances == 1..Len(heap)

PropKeys == {PROPERTIES[i].k : i \in 1..Len(PROPERTIES)}

DerivedKeys == {DERIVED_PROPERTIES[i].k : i \in 1..Len(DERIVED_PROPERTIES)}

\* The object the constructor of heap[j] was given.
ArgOf(j) ==
  CASE made[j].op = "fromJSON" -> data
    [] made[j].op = "reparse" -> toJSON(heap[made[j].from].obj)
    [] OTHER -> Spread(toJSON(heap[made[j].from].obj), made[j].patch)

\* The canonical name of a raw key.
Canonical(key) == IF Has(API_ALIASES, key) THEN Lookup(API_ALIASES, key) ELSE key

\* C5 as stated: the uuid is the raw uuid whenever the key is there, whatever
\* its value, else the raw id whenever that key is there, else a non-empty
\* fallback with a warning; a warning only in the fallback case.
C5_AnyValue ==
  \A j \in Instances :
    LET d == ArgOf(j)
        uuid == Get(heap[j].obj, "uuid")
    IN /\ Has(d, "uuid") => uuid = Get(d, "uuid")
       /\ ~Has(d, "uuid") /\ Has(d, "id") => uuid = Get(d, "id")
       /\ ~Has(d, "uuid") /\ ~Has(d, "id") =>
            uuid.t = "string" /\ uuid.s # <<>> /\ made[j].warns > 0
       /\ made[j].warns > 0 => ~Has(d, "uuid") /\ ~Has(d, "id")

Fallback(d) == ~Truthy(Get(d, "uuid")) /\ ~Truthy(Get(d, "id"))

\* C5 amended: the uuid is the raw uuid whenever that is truthy, else the raw
\* id whenever that is truthy, else a non-empty fallback string; exactly the
\* fallback constructions warn, once each; the paginationId is the uuid.
C5_Identity ==
  /\ \A j \in Instances :
       LET d == ArgOf(j)
           uuid == Get(heap[j].obj, "uuid")
       IN /\ Truthy(Get(d, "uuid")) => uuid = Get(d, "uuid")
          /\ ~Truthy(Get(d, "uuid")) /\ Truthy(Get(d, "id")) => uuid = Get(d, "id")
          /\ Fallback(d) => uuid.t = "string" /\ uuid.s # <<>>
          /\ made[j].warns = (IF Fallback(d) THEN 1 ELSE 0)
          /\ Get(heap[j].obj, "paginationId") = uuid
  /\ warnings = Cardinality({j \in Instances : Fallback(ArgOf(j))})

\* A payload with a falsy uuid and a truthy id was constructed: the id is used.
C5_Witness ==
  \E j \in Instances :
    /\ made[j].op = "fromJSON"
    /\ Has(data, "uuid") /\ ~Truthy(Get(data, "uuid")) /\ Truthy(Get(data, "id"))
    /\ Get(heap[j].obj, "uuid") = Get(data, "id")
    /\ warnings = 0

\* C2: a derived name with a transformer holds transformer(derivation(raw)),
\* whatever the raw input carries under the name or an alias of it; a derived
\* name without a transformer is not a property of the instance.
C2_DerivedPrecedence ==
  \A j \in Instances : \A i \in 1..Len(DERIVED_PROPERTIES) :
    LET key == DERIVED_PROPERTIES[i].k
        derived == Derive(DERIVED_PROPERTIES[i].v, ArgOf(j))
    IN IF key \in PropKeys
       THEN Get(heap[j].obj, key) = Call(Lookup(PROPERTIES, key), derived)
       ELSE ~Has(heap[j].obj, key)

\* The payload carries a value under a derived name (or an alias of it) that
\* the transformer alone would have turned into something else.
C2_Witness ==
  \E j \in Instances : \E i \in 1..Len(data) :
    /\ made[j].op = "fromJSON"
    /\ Canonical(data[i].k) \in DerivedKeys \cap PropKeys
    /\ Get(heap[j].obj, Canonical(data[i].k))
         # Call(Lookup(PROPERTIES, Canonical(data[i].k)), data[i].v)
    /\ Get(heap[j].obj, Canonical(data[i].k)) # Call(Lookup(PROPERTIES, Canonical(data[i].k)), Undefined)

\* No raw key of d resolves to the field.
NoRawValue(d, field) == \A i \in 1..Len(d) : Canonical(d[i].k) # field

IdentityKeys == {"uuid", "paginationId", "type"}

\* C8 as stated: each raw key that is not a derived name sets its canonical
\* field to transformer(raw[key]), or no property when there is no transformer.
C8_EveryKey ==
  \A j \in Instances :
    LET d == ArgOf(j) IN
    \A i \in 1..Len(d) :
      d[i].k \notin DerivedKeys =>
        IF Canonical(d[i].k) \in PropKeys
        THEN Get(heap[j].obj, Canonical(d[i].k))
               = Call(Lookup(PROPERTIES, Canonical(d[i].k)), d[i].v)
        ELSE Canonical(d[i].k) \in IdentityKeys \/ ~Has(heap[j].obj, Canonical(d[i].k))

\* d[i] is the last raw key, not a derived name, that resolves to its field.
LastFor(d, i) ==
  \A k \in (i + 1)..Len(d) :
    d[k].k \in DerivedKeys \/ Canonical(d[k].k) # Canonical(d[i].k)

\* C8 amended: the same of the last raw key (in enumeration order) that
\* resolves to a canonical name, when that name is not a derived field.
C8_Alias ==
  \A j \in Instances :
    LET d == ArgOf(j) IN
    \A i \in 1..Len(d) :
      d[i].k \notin DerivedKeys =>
        IF Canonical(d[i].k) \in PropKeys
        THEN LastFor(d, i) /\ Canonical(d[i].k) \notin DerivedKeys =>
               Get(heap[j].obj, Canonical(d[i].k))
                 = Call(Lookup(PROPERTIES, Canonical(d[i].k)), d[i].v)
        ELSE Canonical(d[i].k) \in IdentityKeys \/ ~Has(heap[j].obj, Canonical(d[i].k))

\* An aliased raw key set its canonical field to a value that is not the default.
C8_Witness ==
  \E j \in Instances : \E i \in 1..Len(data) :
    /\ made[j].op = "fromJSON"
    /\ Canonical(data[i].k) # data[i].k
    /\ Canonical(data[i].k) \in PropKeys \ DerivedKeys
    /\ NoRawValue(SubSeq(data, 1, i - 1) \o SubSeq(data, i + 1, Len(data)), Canonical(data[i].k))
    /\ Get(heap[j].obj, Canonical(data[i].k)) # Call(Lookup(PROPERTIES, Canonical(data[i].k)), Undefined)

Observed == PropKeys \cup IdentityKeys

SameFields(x, y) == \A key \in Observed : Get(x, key) = Get(y, key) /\ (Has(x, key) <=> Has(y, key))

\* C1 as stated: constructing from toJSON(I) gives the fields, uuid,
\* paginationId and type of I, for every class.
C1_EveryClass ==
  \A j \in Instances :
    made[j].op = "reparse" => SameFields(heap[j].obj, heap[made[j].from].obj)

\* No key toJSON emits is renamed by the alias map.
EmittedKeysUnaliased ==
  \A key \in PropKeys \cup {"uuid", "type"} : Canonical(key) = key

\* C1 amended: the same for every class without derived fields whose alias
\* map renames none of the keys toJSON emits.
C1_RoundTrip ==
  \A j \in Instances :
    made[j].op = "reparse" /\ DERIVED_PROPERTIES = <<>> /\ EmittedKeysUnaliased =>
      SameFields(heap[j].obj, heap[made[j].from].obj)

\* An instance with an aliased field set and its identity from the id was
\* taken round.
C1_Witness ==
  \E j \in Instances :
    /\ made[j].op = "reparse" /\ DERIVED_PROPERTIES = <<>> /\ EmittedKeysUnaliased
    /\ API_ALIASES # <<>>
    /\ Has(data, "x") /\ Truthy(Get(data, "id")) /\ ~Has(data, "uuid")
    /\ Get(heap[j].obj, "a") # Undefined
    /\ Get(heap[j].obj, "uuid") = Get(data, "id")

----------------------------------------------------------------------------
(* set, stub and toJSON *)

\* C3: no step changes a property of an instance that exists, whatever is
\* called on it; a call that returns an instance returns a new, frozen one;
\* no assignment to a returned instance takes effect.
C3_Immutable ==
  [][/\ \A i \in 1..Len(heap) : i <= Len(heap') /\ heap'[i].obj = heap[i].obj
     /\ Len(heap') # Len(heap) =>
          /\ Len(heap') = Len(heap) + 1
          /\ ret'.tag = "instance" /\ ret'.i = Len(heap')
          /\ heap'[Len(heap')].frozen
     /\ ret'.tag # "assigned"]_vars

\* set and stub were called on the same instance and an assignment to an
\* instance was then attempted.
C3_Witness ==
  /\ \E j, k \in Instances :
       /\ made[j].op = "set" /\ made[k].op = "stub"
       /\ made[j].from = 1 /\ made[k].from = 1
       /\ heap[j].obj # heap[1].obj
  /\ ret.tag = "TypeError"

Without(o, key) == SelectSeq(o, LAMBDA e : e.k # key)

KeySet(o) == {o[i].k : i \in 1..Len(o)}

\* C6: the keys of toJSON(instance) are the names in PROPERTIES, uuid and
\* type, once each, with the instance's values; no promise is among them.
C6_ToJSON ==
  ret.tag = "json" =>
    /\ KeySet(ret.obj) = PropKeys \cup {"uuid", "type"}
    /\ Len(ret.obj) = Cardinality(KeySet(ret.obj))
    /\ \A i \in 1..Len(ret.obj) :
         /\ ret.obj[i].v = Get(heap[ret.i].obj, ret.obj[i].k)
         /\ ret.obj[i].v.t # "promise"

\* toJSON of a stub, which has a promise and a paginationId to leave out.
C6_Witness ==
  /\ ret.tag = "json"
  /\ made[ret.i].op = "stub"
  /\ Get(heap[ret.i].obj, "promise").t = "promise"
  /\ \E key \in PropKeys : Truthy(Get(ret.obj, key))

\* C9: once a stub exists, while its promise is pending and after it
\* settles, no step changes, replaces or removes an instance (the stub and
\* its promise property included), and the step that settles a promise
\* changes nothing else.
C9_StubLifecycle ==
  [][(\E j \in Instances : made[j].op = "stub") =>
       /\ \A i \in 1..Len(heap) : i <= Len(heap') /\ heap'[i] = heap[i] /\ made'[i] = made[i]
       /\ (\E i \in 1..Len(promises) : promises'[i] # promises[i]) =>
            heap' = heap /\ ret' = ret /\ warnings' = warnings]_vars

\* A stub whose promise was rejected, with an instance made from the stub
\* since, and the original read after that.
C9_Witness ==
  \E j, k \in Instances :
    /\ made[j].op = "stub" /\ made[j].from = 1 /\ promises[j] = "rejected"
    /\ made[k].from = j
    /\ ret.tag = "json" /\ ret.i = 1

\* C10 as stated: set(I, p) is construct(toJSON(I) merged with p), and its
\* derived fields are those of constructing I's raw input with p applied.
C10_FromRaw ==
  \A j \in Instances :
    made[j].op = "set" /\ made[made[j].from].op = "fromJSON" =>
      /\ \E r \in Randoms \X Randoms :
           heap[j].obj = New(Spread(toJSON(heap[made[j].from].obj), made[j].patch),
                             FALSE, r[1], r[2]).obj
      /\ \A key \in DerivedKeys \cap PropKeys :
           Get(heap[j].obj, key)
             = Get(New(Spread(data, made[j].patch), FALSE, 0, 0).obj, key)

\* C10 amended: set(I, p) is construct(toJSON(I) merged with p), patch values
\* winning, and each derived field of it is transformer(derivation(toJSON(I)
\* merged with p)): the derivation reads I's serialized fields, not I's raw input.
C10_SetDerived ==
  \A j \in Instances :
    made[j].op = "set" =>
      LET this == heap[made[j].from].obj
          merged == Spread(toJSON(this), made[j].patch)
      IN /\ \E r \in Randoms \X Randoms : heap[j].obj = New(merged, FALSE, r[1], r[2]).obj
         /\ \A i \in 1..Len(made[j].patch) :
              Get(merged, made[j].patch[i].k) = made[j].patch[i].v
         /\ \A key \in KeySet(toJSON(this)) \ KeySet(made[j].patch) :
              Get(merged, key) = Get(this, key)
         /\ \A i \in 1..Len(DERIVED_PROPERTIES) :
              DERIVED_PROPERTIES[i].k \in PropKeys =>
                Get(heap[j].obj, DERIVED_PROPERTIES[i].k)
                  = Call(Lookup(PROPERTIES, DERIVED_PROPERTIES[i].k),
                         Derive(DERIVED_PROPERTIES[i].v, merged))

\* A set whose patch changed an input of a derivation, and the derived field.
C10_Witness ==
  \E j \in Instances : \E i \in 1..Len(DERIVED_PROPERTIES) :
    /\ made[j].op = "set"
    /\ DERIVED_PROPERTIES[i].k \in PropKeys
    /\ Has(made[j].patch, DERIVED_PROPERTIES[i].v.k1)
    /\ Get(heap[j].obj, DERIVED_PROPERTIES[i].k)
         # Get(heap[made[j].from].obj, DERIVED_PROPERTIES[i].k)
    /\ Get(heap[j].obj, DERIVED_PROPERTIES[i].k).t = "number"

====
